---- MODULE Spec2Model ----
(***************************************************************************)
(* links2rss-telegram-bot (src/main.py): a Telegram bot that stores the    *)
(* links shared in group chats in SQLite and serves each group's links as  *)
(* an RSS feed behind a per-group token.                                   *)
(*                                                                         *)
(* The model follows the single asyncio event loop of main(): a coroutine  *)
(* runs atomically up to its next await, so every action below is the code *)
(* between two awaits of one coroutine.  The two SQLite tables are the     *)
(* shared state; their constraints (PRIMARY KEY, UNIQUE, FOREIGN KEY with  *)
(* PRAGMA foreign_keys=ON, AUTOINCREMENT) are enforced by the insert       *)
(* operators exactly where SQLite enforces them.                           *)
(***************************************************************************)
EXTENDS Integers, Sequences, FiniteSets, TLC

(***************************************************************************)
(* Bounds of the model.                                                    *)
(***************************************************************************)
\* rows of the links table at one time, and words of one message text
MaxRows == 2
\* rows of the links table drawn by InitFeed
MaxFeedRows == 66

(***************************************************************************)
(* Input domains.                                                          *)
(***************************************************************************)
None == "<None>"
Chats == {"g1", "g2"}
MessageIds == {1, 2}
Urls == {"http://a.example/x", "http://b.example/y"}
Words == {"hi"}
\* message.from_user.first_name of the updates of a chat; None: no from_user
\* (the first chat's members post under their name, the second's anonymously)
FirstNamesOf(chat_id) == IF chat_id = "g1" THEN {"Ann"} ELSE {None}
TaskIds == {1, 2}

Min(a, b) == IF a < b THEN a ELSE b

\* message texts: sequences of words and URLs, in order of occurrence
Texts == UNION {[1..n -> Words \cup Urls] : n \in 0..MaxRows}

\* message.text / message.caption of an update: either may be absent (NoText)
NoText == <<None>>
Bodies ==
    {[text |-> t, caption |-> NoText] : t \in Texts \cup {NoText}}
        \cup {[text |-> NoText, caption |-> t] : t \in Texts}

\* updates the message handler is given: update.message is set, or
\* update.edited_message, or neither (a channel post)
MessageUpdates ==
    {[kind |-> k, body |-> b] : k \in {"message", "edited_message"}, b \in Bodies}
        \cup {[kind |-> "channel_post", body |-> [text |-> <<"hi">>, caption |-> NoText]]}

(***************************************************************************)
(* The web: what a metadata fetch of a URL can meet.  ok = FALSE is any    *)
(* failure of the request (network error, timeout, non-2xx, parse error).  *)
(* A tag is "<absent>" when soup.find returns nothing, None when the tag   *)
(* is there without the attribute or string.  The first URL is one whose   *)
(* fetch fails or finds no metadata, the second one with metadata.         *)
(***************************************************************************)
Absent == "<absent>"

PagesOf(url) ==
    IF url = "http://a.example/x"
    THEN { [ok |-> FALSE, og_title |-> Absent, title_tag |-> Absent,
            og_desc |-> Absent, meta_desc |-> Absent, og_image |-> Absent],
           [ok |-> TRUE, og_title |-> Absent, title_tag |-> None,
            og_desc |-> Absent, meta_desc |-> Absent, og_image |-> Absent],
           [ok |-> TRUE, og_title |-> "", title_tag |-> Absent,
            og_desc |-> "", meta_desc |-> Absent, og_image |-> Absent] }
    ELSE { [ok |-> TRUE, og_title |-> "Title", title_tag |-> "Other title",
            og_desc |-> "Description", meta_desc |-> "Other description",
            og_image |-> "http://b.example/i.png"],
           [ok |-> TRUE, og_title |-> "", title_tag |-> "Title",
            og_desc |-> Absent, meta_desc |-> "Description",
            og_image |-> "http://b.example/i.png"] }

VARIABLES
    telegram_token,  \* TELEGRAM_BOT_TOKEN is set (TRUE) or missing (FALSE)
    bot,             \* run_telegram_bot: "created", "polling", "returned", "failed"
    http,            \* run_fastapi_server: "created", "serving", "stopped"
    groups,          \* table groups: sequence of rows [chat_id, token]
    links,           \* table links: sequence of rows, in rowid order
    next_uuid,       \* number of uuid4() values drawn so far, plus one
    tasks,           \* handler coroutines, by slot of the dispatcher
    replies,         \* <<chat_id, token>> of the feed URLs put in /rssfeed replies
    ingested,        \* <<chat_id, message_id, URLs>> of the ingestion that ended last
    response         \* the HTTP response being sent, if any

vars == <<telegram_token, bot, http, groups, links, next_uuid,
          tasks, replies, ingested, response>>

store == <<groups, links, next_uuid>>

(***************************************************************************)
(* Timestamps.  datetime.now() is a naive wall-clock reading; sqlite3's    *)
(* default adapter stores it as the text of isoformat(" "), the ORDER BY   *)
(* of get_links compares those texts (BINARY collation), and get_links     *)
(* parses them back with datetime.fromisoformat.  The model keeps the      *)
(* "MM:SS[.ffffff]" tail of the text as a sequence of character codes (the *)
(* "YYYY-MM-DD HH:" head is the same for all readings of the model).       *)
(***************************************************************************)
datetime(ticks) == [sec |-> ticks \div 2, usec |-> (ticks % 2) * 500000]

\* what datetime.now() returns, in half seconds, while a message is ingested:
\* the links of one message get one reading, those of another message another
\* one; the wall clock can be set back, so an earlier reading may come later
ClockReadings(message_id) == {3 * (message_id - 1)}

Chr(d) == 48 + d

TwoDigits(n) == <<Chr((n \div 10) % 10), Chr(n % 10)>>

RECURSIVE Digits(_, _)
Digits(n, width) ==
    IF width = 0 THEN <<>> ELSE Append(Digits(n \div 10, width - 1), Chr(n % 10))

\* datetime.isoformat(" "): the fraction is left out when microsecond is 0
isoformat(dt) ==
    TwoDigits(dt.sec \div 60) \o <<58>> \o TwoDigits(dt.sec % 60)
        \o (IF dt.usec = 0 THEN <<>> ELSE <<46>> \o Digits(dt.usec, 6))

RECURSIVE Number(_)
Number(chars) ==
    IF chars = <<>> THEN 0
    ELSE 10 * Number(SubSeq(chars, 1, Len(chars) - 1)) + (chars[Len(chars)] - 48)

\* datetime.fromisoformat on a stored text
fromisoformat(text) ==
    [sec  |-> 60 * Number(SubSeq(text, 1, 2)) + Number(SubSeq(text, 4, 5)),
     usec |-> IF Len(text) > 5 THEN Number(SubSeq(text, 7, Len(text))) ELSE 0]

\* strftime("%a, %d %b %Y %H:%M:%S +0000"): the microseconds are dropped
strftime(dt) == dt.sec

\* SQLite's comparison of two TEXT values: bytewise, a proper prefix first
TextLess(a, b) ==
    \E i \in 1..Len(b) :
        /\ \A j \in 1..(i - 1) : j <= Len(a) /\ a[j] = b[j]
        /\ (i = Len(a) + 1 \/ (i <= Len(a) /\ a[i] < b[i]))

\* chronological order of two datetimes
DatetimeLess(a, b) == a.sec < b.sec \/ (a.sec = b.sec /\ a.usec < b.usec)

(***************************************************************************)
(* The schema of init_database, as the checks SQLite makes on INSERT.      *)
(***************************************************************************)
Range(seq) == {seq[i] : i \in 1..Len(seq)}

\* groups(chat_id TEXT PRIMARY KEY, token TEXT UNIQUE NOT NULL)
groups_insert_ok(tbl, row) ==
    /\ row.token # None
    /\ \A g \in Range(tbl) : g.chat_id # row.chat_id /\ g.token # row.token

\* links(... chat_id TEXT NOT NULL, url TEXT NOT NULL,
\*       FOREIGN KEY (chat_id) REFERENCES groups(chat_id)), foreign_keys=ON
links_insert_ok(grps, row) ==
    /\ row.chat_id # None
    /\ row.url # None
    /\ \E g \in Range(grps) : g.chat_id = row.chat_id

\* uuid.uuid4(): a value no earlier call returned
Uuids == <<"uuid-1", "uuid-2", "uuid-3", "uuid-4">>

uuid4 == Uuids[next_uuid]

(***************************************************************************)
(* The store functions.  Each returns what the call leaves behind:         *)
(* raised = TRUE when the statement raises sqlite3.IntegrityError, in      *)
(* which case nothing was written.                                         *)
(***************************************************************************)
select_token(chat_id) == {g.token : g \in {r \in Range(groups) : r.chat_id = chat_id}}

\* a mutant of get_group_token: the existing row is not looked up
get_group_token_no_lookup(chat_id) ==
    LET row == [chat_id |-> chat_id, token |-> uuid4]
    IN  IF groups_insert_ok(groups, row)
        THEN [raised |-> FALSE, token |-> row.token, groups |-> Append(groups, row),
              next_uuid |-> next_uuid + 1]
        ELSE [raised |-> TRUE, token |-> None, groups |-> groups,
              next_uuid |-> next_uuid + 1]

\* a mutant of get_group_token: a new token is written over the old one
get_group_token_rotate(chat_id) ==
    LET row == [chat_id |-> chat_id, token |-> uuid4]
    IN  [raised |-> FALSE, token |-> row.token,
         groups |-> Append(SelectSeq(groups, LAMBDA g : g.chat_id # chat_id), row),
         next_uuid |-> next_uuid + 1]

get_group_token(chat_id) ==
    LET result == select_token(chat_id)
        row == [chat_id |-> chat_id, token |-> uuid4]
    IN  IF result # {}
        THEN [raised |-> FALSE, token |-> CHOOSE t \in result : TRUE,
              groups |-> groups, next_uuid |-> next_uuid]
        ELSE IF groups_insert_ok(groups, row)
        THEN [raised |-> FALSE, token |-> row.token, groups |-> Append(groups, row),
              next_uuid |-> next_uuid + 1]
        ELSE [raised |-> TRUE, token |-> None, groups |-> groups,
              next_uuid |-> next_uuid + 1]

\* the row of an INSERT INTO links; the AUTOINCREMENT id is never read by the
\* program, a row's place in the table stands for it
link_row(chat_id, link_data) ==
    [chat_id |-> chat_id, url |-> link_data.url, title |-> link_data.title,
     description |-> link_data.description, image |-> link_data.image,
     message_id |-> link_data.message_id, date |-> isoformat(link_data.date)]

\* a mutant of save_link: the row is written without the foreign-key check
\* (PRAGMA foreign_keys left off)
save_link_unchecked(chat_id, link_data) ==
    [raised |-> FALSE, links |-> Append(links, link_row(chat_id, link_data))]

save_link(chat_id, link_data) ==
    LET row == link_row(chat_id, link_data)
    IN  IF links_insert_ok(groups, row)
        THEN [raised |-> FALSE, links |-> Append(links, row)]
        ELSE [raised |-> TRUE, links |-> links]

\* a mutant of delete_group_links: WHERE message_id = ? alone
delete_group_links_by_message(chat_id, message_id) ==
    SelectSeq(links, LAMBDA r : r.message_id # message_id)

delete_group_links(chat_id, message_id) ==
    SelectSeq(links, LAMBDA r : ~(r.chat_id = chat_id /\ r.message_id = message_id))

(***************************************************************************)
(* get_links: SELECT ... WHERE chat_id = ? ORDER BY date DESC LIMIT ?.     *)
(* SQL leaves the order of rows with equal dates open; ties names the one  *)
(* the engine takes ("rowid_asc" or "rowid_desc").                         *)
(***************************************************************************)
TieOrders == {"rowid_asc", "rowid_desc"}

SortsBefore(r, q, ties) ==
    \/ TextLess(q.date, r.date)
    \/ /\ q.date = r.date
       /\ IF ties = "rowid_asc" THEN r.rowid < q.rowid ELSE r.rowid > q.rowid

RECURSIVE order_by_date_desc(_, _)
order_by_date_desc(rows, ties) ==
    IF rows = <<>> THEN <<>>
    ELSE LET rest == order_by_date_desc(Tail(rows), ties)
             r == Head(rows)
             k == Cardinality({i \in 1..Len(rest) : SortsBefore(rest[i], r, ties)})
         IN  SubSeq(rest, 1, k) \o <<r>> \o SubSeq(rest, k + 1, Len(rest))

\* the rows of the table with their rowids
scan(tbl) == [i \in 1..Len(tbl) |-> [rowid |-> i, row |-> tbl[i], date |-> tbl[i].date]]

LinkData(row) ==
    [url |-> row.url, title |-> row.title, description |-> row.description,
     image |-> row.image, message_id |-> row.message_id,
     date |-> fromisoformat(row.date)]

\* a mutant of get_links: rows of every group are selected
get_links_any_group(chat_id, limit, ties) ==
    LET sorted == order_by_date_desc(scan(links), ties)
    IN  [i \in 1..Min(limit, Len(sorted)) |-> LinkData(sorted[i].row)]

\* a mutant of get_links: no LIMIT
get_links_unlimited(chat_id, limit, ties) ==
    LET selected == SelectSeq(scan(links), LAMBDA r : r.row.chat_id = chat_id)
        sorted == order_by_date_desc(selected, ties)
    IN  [i \in 1..Len(sorted) |-> LinkData(sorted[i].row)]

get_links(chat_id, limit, ties) ==
    LET selected == SelectSeq(scan(links), LAMBDA r : r.row.chat_id = chat_id)
        sorted == order_by_date_desc(selected, ties)
    IN  [i \in 1..Min(limit, Len(sorted)) |-> LinkData(sorted[i].row)]

(***************************************************************************)
(* fetch_og_tags: the metadata of a page, each field by priority; any      *)
(* failure gives the empty OGData().                                       *)
(***************************************************************************)
Falsy(x) == x = None \/ x = ""

\* str(tag.get("content")): a tag without the attribute gives "None"
Str(x) == IF x = None THEN "None" ELSE x

OGData == [title |-> None, description |-> None, image |-> None]

fetch_og_tags(page) ==
    IF ~page.ok THEN OGData
    ELSE LET og_title == IF page.og_title # Absent THEN Str(page.og_title) ELSE None
             title == IF Falsy(og_title) /\ page.title_tag # Absent
                      THEN (IF Falsy(page.title_tag) THEN None ELSE page.title_tag)
                      ELSE og_title
             og_desc == IF page.og_desc # Absent THEN Str(page.og_desc) ELSE None
             description == IF Falsy(og_desc) /\ page.meta_desc # Absent
                            THEN Str(page.meta_desc)
                            ELSE og_desc
             image == IF page.og_image # Absent THEN Str(page.og_image) ELSE None
         IN  [title |-> title, description |-> description, image |-> image]

(***************************************************************************)
(* The handler coroutines.  A slot holds one call of a handler: where it   *)
(* is suspended (pc = "fetch" at the await of fetch_og_tags, "reply" at    *)
(* the await of reply_text) or how it ended ("returned", "raised"), with   *)
(* its local variables (before: the URLs of the ingestion of the same      *)
(* message that ended just before this one; failed: the places in urls of  *)
(* the URLs whose metadata fetch failed).  A finished call stays in its    *)
(* slot until the dispatcher collects it (handler_done); a finished call   *)
(* or an HTTP response is collected before any other coroutine steps.      *)
(* Collecting touches no shared state, so this only fixes the order of     *)
(* steps that commute.                                                     *)
(***************************************************************************)
Idle ==
    [pc |-> "idle", handler |-> None, chat_id |-> None, message_id |-> 0,
     user_name |-> None, urls |-> <<>>, i |-> 0, purged |-> 0, before |-> {},
     failed |-> {}, token |-> None, created |-> FALSE]

NoResponse == [endpoint |-> "none"]

Active(t) == tasks[t].pc # "idle"

Ended(t) == tasks[t].pc \in {"returned", "raised"}

Quiet == response = NoResponse /\ \A t \in TaskIds : ~Ended(t)

Running == http # "stopped"

\* link rows still to be written by the handlers in flight
RECURSIVE Pending(_)
Pending(ts) ==
    IF ts = {} THEN 0
    ELSE LET t == CHOOSE x \in ts : TRUE
         IN  (IF tasks[t].pc = "fetch" THEN Len(tasks[t].urls) - tasks[t].i + 1 ELSE 0)
                 + Pending(ts \ {t})

(***************************************************************************)
(* The dispatcher of python-telegram-bot hands an update to its handler.   *)
(* Application.builder().build() leaves concurrent_updates off: the next   *)
(* update is processed when the handler of the previous one has finished   *)
(* (concurrent = FALSE).  With concurrent = TRUE handlers overlap at their *)
(* awaits, the scheduling get_group_token is to be safe under.             *)
(***************************************************************************)
\* a mutant of the dispatcher: built with concurrent_updates(True), every
\* update is handed to its handler while earlier calls are suspended
Dispatch_concurrent_updates(concurrent, t) ==
    /\ bot = "polling"
    /\ Running
    /\ Quiet
    /\ ~Active(t)
    /\ \A u \in TaskIds : u < t => Active(u)

Dispatch(concurrent, t) ==
    /\ bot = "polling"
    /\ Running
    /\ Quiet
    /\ ~Active(t)
    /\ \A u \in TaskIds : u < t => Active(u)
    /\ concurrent \/ \A u \in TaskIds : ~Active(u)

\* the URLs of the message's ingestion when it is the one that ended last; {}
\* when another message was ingested since, or none
ingested_urls(chat_id, message_id) ==
    UNION {e[3] : e \in {x \in ingested : x[1] = chat_id /\ x[2] = message_id}}

\* URL_PATTERN.findall(text): the URLs of the text, in order, repeats kept
findall(text) == SelectSeq(text, LAMBDA w : w \in Urls)

\* message.text or message.caption or ""
text_of(body) ==
    IF body.text # NoText /\ body.text # <<>> THEN body.text
    ELSE IF body.caption # NoText /\ body.caption # <<>> THEN body.caption
    ELSE <<>>

shared_by(user_name) == <<"Shared by", user_name>>

\* a mutant of the LinkData of handle_message: the title is the metadata
\* title, without the fallback to the URL
link_data_of_no_fallback(url, og_data, user_name, message_id, date) ==
    LET description == IF ~Falsy(og_data.description) THEN og_data.description ELSE ""
        full_description ==
            IF description # "" THEN shared_by(user_name) \o <<"-", description>>
            ELSE shared_by(user_name)
    IN  [url |-> url, title |-> og_data.title, description |-> full_description,
         date |-> date, image |-> og_data.image, message_id |-> message_id]

\* the LinkData handle_message builds for one URL from its metadata
link_data_of(url, og_data, user_name, message_id, date) ==
    LET title == IF ~Falsy(og_data.title) THEN og_data.title ELSE url
        description == IF ~Falsy(og_data.description) THEN og_data.description ELSE ""
        full_description ==
            IF description # "" THEN shared_by(user_name) \o <<"-", description>>
            ELSE shared_by(user_name)
    IN  [url |-> url, title |-> title, description |-> full_description,
         date |-> date, image |-> og_data.image, message_id |-> message_id]

\* a mutant of handle_message: the purge comes before the early returns
handle_message_purge_first(concurrent) ==
    \E t \in TaskIds :
        /\ Dispatch(concurrent, t)
        /\ \E update \in MessageUpdates, chat_id \in Chats, message_id \in MessageIds :
          \E first_name \in FirstNamesOf(chat_id) :
            LET urls == IF update.kind = "channel_post" THEN <<>>
                        ELSE findall(text_of(update.body))
                user_name == IF first_name # None THEN first_name ELSE "Unknown"
                kept == delete_group_links(chat_id, message_id)
                call == [Idle EXCEPT !.handler = "handle_message", !.chat_id = chat_id,
                                     !.message_id = message_id,
                                     !.before = ingested_urls(chat_id, message_id)]
            IN  /\ Len(kept) + Pending(TaskIds) + Len(urls) <= MaxRows
                /\ links' = kept
                /\ tasks' = [tasks EXCEPT ![t] =
                      IF urls = <<>> THEN [call EXCEPT !.pc = "returned"]
                      ELSE [call EXCEPT !.pc = "fetch", !.user_name = user_name,
                                        !.urls = urls, !.i = 1,
                                        !.purged = Len(links) - Len(kept)]]
        /\ UNCHANGED <<telegram_token, bot, http, groups, next_uuid, replies, ingested,
                       response>>

\* handle_message up to its first await: the early returns, then the purge
handle_message(concurrent) ==
    \E t \in TaskIds :
        /\ Dispatch(concurrent, t)
        /\ \E update \in MessageUpdates, chat_id \in Chats, message_id \in MessageIds :
          \E first_name \in FirstNamesOf(chat_id) :
            LET urls == IF update.kind = "channel_post" THEN <<>>
                        ELSE findall(text_of(update.body))
                user_name == IF first_name # None THEN first_name ELSE "Unknown"
                kept == delete_group_links(chat_id, message_id)
                call == [Idle EXCEPT !.handler = "handle_message", !.chat_id = chat_id,
                                     !.message_id = message_id,
                                     !.before = ingested_urls(chat_id, message_id)]
            IN  IF urls = <<>>
                THEN /\ tasks' = [tasks EXCEPT ![t] = [call EXCEPT !.pc = "returned"]]
                     /\ UNCHANGED links
                ELSE /\ Len(kept) + Pending(TaskIds) + Len(urls) <= MaxRows
                     /\ links' = kept
                     /\ tasks' = [tasks EXCEPT ![t] =
                           [call EXCEPT !.pc = "fetch", !.user_name = user_name,
                                        !.urls = urls, !.i = 1,
                                        !.purged = Len(links) - Len(kept)]]
        /\ UNCHANGED <<telegram_token, bot, http, groups, next_uuid, replies, ingested,
                       response>>

\* the await of fetch_og_tags returns; the link is built and saved; the loop
\* goes on to the fetch of the next URL, or the handler ends
fetch_returns ==
    \E t \in TaskIds :
      \E page \in (IF tasks[t].pc = "fetch" THEN PagesOf(tasks[t].urls[tasks[t].i]) ELSE {}),
         reading \in ClockReadings(tasks[t].message_id) :
        LET task == tasks[t]
            url == task.urls[task.i]
            og_data == fetch_og_tags(page)
            link_data == link_data_of(url, og_data, task.user_name, task.message_id,
                                      datetime(reading))
            saved == save_link(task.chat_id, link_data)
            failed == IF page.ok THEN task.failed ELSE task.failed \cup {task.i}
        IN  /\ Running
            /\ Quiet
            /\ task.pc = "fetch"
            /\ links' = saved.links
            /\ tasks' = [tasks EXCEPT ![t] =
                  IF saved.raised THEN [task EXCEPT !.pc = "raised", !.failed = failed]
                  ELSE IF task.i = Len(task.urls)
                  THEN [task EXCEPT !.pc = "returned", !.failed = failed]
                  ELSE [task EXCEPT !.i = task.i + 1, !.failed = failed]]
            /\ ingested' =
                  IF saved.raised \/ task.i = Len(task.urls)
                  THEN {<<task.chat_id, task.message_id, Range(task.urls)>>}
                  ELSE ingested
            /\ UNCHANGED <<telegram_token, bot, http, groups, next_uuid, replies,
                           response>>

\* a mutant of fetch_returns_write_fails: the exception of save_link is caught
\* and the loop goes on
fetch_returns_write_skipped ==
    \E t \in TaskIds :
      \E page \in (IF tasks[t].pc = "fetch" THEN PagesOf(tasks[t].urls[tasks[t].i]) ELSE {}) :
        LET task == tasks[t]
            failed == IF page.ok THEN task.failed ELSE task.failed \cup {task.i}
        IN  /\ Running
            /\ Quiet
            /\ task.pc = "fetch"
            /\ tasks' = [tasks EXCEPT ![t] =
                  IF task.i = Len(task.urls)
                  THEN [task EXCEPT !.pc = "returned", !.failed = failed]
                  ELSE [task EXCEPT !.i = task.i + 1, !.failed = failed]]
            /\ ingested' =
                  IF task.i = Len(task.urls)
                  THEN {<<task.chat_id, task.message_id, Range(task.urls)>>}
                  ELSE ingested
            /\ UNCHANGED <<telegram_token, bot, http, groups, links, next_uuid, replies,
                           response>>

\* the await of fetch_og_tags returns and the INSERT of save_link raises
\* sqlite3.OperationalError (disk full, I/O error): no row is written, the
\* exception leaves save_link and handle_message, which has no try around it
fetch_returns_write_fails ==
    \E t \in TaskIds :
      \E page \in (IF tasks[t].pc = "fetch" THEN PagesOf(tasks[t].urls[tasks[t].i]) ELSE {}) :
        LET task == tasks[t]
            failed == IF page.ok THEN task.failed ELSE task.failed \cup {task.i}
        IN  /\ Running
            /\ Quiet
            /\ task.pc = "fetch"
            /\ tasks' = [tasks EXCEPT ![t] =
                  [task EXCEPT !.pc = "raised", !.failed = failed]]
            /\ ingested' = {<<task.chat_id, task.message_id, Range(task.urls)>>}
            /\ UNCHANGED <<telegram_token, bot, http, groups, links, next_uuid, replies,
                           response>>

\* handle_rssfeed_command up to the await of reply_text: the token is got or
\* made, and the reply with the feed URL is composed
handle_rssfeed_command(concurrent) ==
    \E t \in TaskIds :
        /\ Dispatch(concurrent, t)
        /\ next_uuid <= Len(Uuids)
        /\ \E kind \in {"message", "edited_message"}, chat_id \in Chats :
            LET got == get_group_token(chat_id)
                call == [Idle EXCEPT !.handler = "handle_rssfeed_command",
                                     !.chat_id = chat_id]
            IN  IF kind # "message"
                THEN /\ tasks' = [tasks EXCEPT ![t] = [call EXCEPT !.pc = "returned"]]
                     /\ UNCHANGED <<groups, next_uuid, replies>>
                ELSE /\ groups' = got.groups
                     /\ next_uuid' = got.next_uuid
                     /\ IF got.raised
                        THEN /\ tasks' = [tasks EXCEPT ![t] = [call EXCEPT !.pc = "raised"]]
                             /\ UNCHANGED replies
                        ELSE /\ replies' = replies \cup {<<chat_id, got.token>>}
                             /\ tasks' = [tasks EXCEPT ![t] =
                                   [call EXCEPT !.pc = "reply", !.token = got.token,
                                                !.created = Len(got.groups) > Len(groups)]]
        /\ UNCHANGED <<telegram_token, bot, http, links, ingested, response>>

\* the await of reply_text returns: the reply is in the chat
reply_sent ==
    \E t \in TaskIds :
        /\ Running
        /\ Quiet
        /\ tasks[t].pc = "reply"
        /\ tasks' = [tasks EXCEPT ![t].pc = "returned"]
        /\ UNCHANGED <<telegram_token, bot, http, groups, links, next_uuid, replies,
                       ingested, response>>

\* the dispatcher collects a finished handler call
handler_done ==
    \E t \in TaskIds :
        /\ Ended(t)
        /\ tasks' = [tasks EXCEPT ![t] = Idle]
        /\ UNCHANGED <<telegram_token, bot, http, groups, links, next_uuid,
                       replies, ingested, response>>

(***************************************************************************)
(* The HTTP endpoints.  Each is a coroutine without an await: one action.  *)
(***************************************************************************)
FeedLimit == 50

\* one <item> of the channel
rss_item(link) ==
    [title |-> link.title, link |-> link.url, description |-> link.description,
     pubDate |-> strftime(link.date), guid |-> <<link.url, link.date>>,
     enclosure |-> IF Falsy(link.image) THEN None ELSE link.image]

generate_rss(chat_id, ties) ==
    LET links_list == get_links(chat_id, FeedLimit, ties)
    IN  [channel_link |-> chat_id,
         items |-> [i \in 1..Len(links_list) |-> rss_item(links_list[i])]]

\* a mutant of the token lookup: only the first row of groups is compared
select_chat_id_first_row(token) ==
    {g.chat_id : g \in {r \in Range(SubSeq(groups, 1, Min(1, Len(groups)))) :
                           r.token = token}}

select_chat_id(token) == {g.chat_id : g \in {r \in Range(groups) : r.token = token}}

RssResponse(token, status, channel_link, items) ==
    [endpoint |-> "/rss", token |-> token, status |-> status,
     channel_link |-> channel_link, items |-> items]

\* a mutant of rss_feed: the token parameter is optional (Query(None)), a
\* request without it is looked up like any other
rss_feed_optional_token(token, ties) ==
    LET result == select_chat_id(token)
    IN  IF result = {} THEN RssResponse(token, 401, None, <<>>)
        ELSE LET rss_content == generate_rss(CHOOSE c \in result : TRUE, ties)
             IN  RssResponse(token, 200, rss_content.channel_link, rss_content.items)

\* GET /rss; token = None is a request without the token parameter, which
\* FastAPI answers for the required Query(...) before rss_feed is called
rss_feed(token, ties) ==
    LET result == select_chat_id(token)
    IN  IF token = None THEN RssResponse(token, 422, None, <<>>)
        ELSE IF result = {} THEN RssResponse(token, 401, None, <<>>)
        ELSE LET rss_content == generate_rss(CHOOSE c \in result : TRUE, ties)
             IN  RssResponse(token, 200, rss_content.channel_link, rss_content.items)

\* tokens a client may present: any uuid, a string that is none, or no parameter
RequestTokens == {Uuids[1], Uuids[2], "not-a-token", None}

\* a mutant of get_rss: a token of no group is registered for a group that
\* has none (get-or-create in the feed endpoint)
get_rss_creates_group ==
    \E token \in RequestTokens, ties \in TieOrders :
        /\ http = "serving"
        /\ Quiet
        /\ response' = rss_feed(token, ties)
        /\ groups' =
              IF /\ token # None
                 /\ select_chat_id(token) = {}
                 /\ \E c \in Chats : select_token(c) = {}
              THEN Append(groups, [chat_id |-> CHOOSE c \in Chats : select_token(c) = {},
                                   token |-> token])
              ELSE groups
        /\ UNCHANGED <<telegram_token, bot, http, links, next_uuid,
                       tasks, replies, ingested>>

\* a mutant of get_rss: the metadata fetch is a blocking call, the event loop
\* takes no request while one is outstanding
get_rss_blocked ==
    \E token \in RequestTokens, ties \in TieOrders :
        /\ http = "serving"
        /\ Quiet
        /\ \A t \in TaskIds : tasks[t].pc # "fetch"
        /\ response' = rss_feed(token, ties)
        /\ UNCHANGED <<telegram_token, bot, http, groups, links, next_uuid,
                       tasks, replies, ingested>>

get_rss ==
    \E token \in RequestTokens, ties \in TieOrders :
        /\ http = "serving"
        /\ Quiet
        /\ response' = rss_feed(token, ties)
        /\ UNCHANGED <<telegram_token, bot, http, groups, links, next_uuid,
                       tasks, replies, ingested>>

health ==
    [endpoint |-> "/health", status |-> 200, links_count |-> Len(links),
     groups_count |-> Len(groups)]

get_health ==
    /\ http = "serving"
    /\ Quiet
    /\ response' = health
    /\ UNCHANGED <<telegram_token, bot, http, groups, links, next_uuid,
                   tasks, replies, ingested>>

root == [endpoint |-> "/", status |-> 200, links_count |-> 0]

get_root ==
    /\ http = "serving"
    /\ Quiet
    /\ response' = root
    /\ UNCHANGED <<telegram_token, bot, http, groups, links, next_uuid,
                   tasks, replies, ingested>>

\* the server has written the response to the client
response_sent ==
    /\ response # NoResponse
    /\ response' = NoResponse
    /\ UNCHANGED <<telegram_token, bot, http, groups, links, next_uuid,
                   tasks, replies, ingested>>

(***************************************************************************)
(* main: asyncio.gather(run_fastapi_server(), run_telegram_bot()).         *)
(***************************************************************************)
\* started: initialize(), start() and start_polling() went through; when one
\* of them raises, gather passes the exception on, main closes the database
\* and asyncio.run cancels the server task
\* a mutant of run_telegram_bot: the missing credential raises instead of
\* returning
run_telegram_bot_raises(started) ==
    IF ~telegram_token THEN [bot |-> "failed", http |-> "stopped"]
    ELSE IF started THEN [bot |-> "polling", http |-> http]
    ELSE [bot |-> "failed", http |-> "stopped"]

run_telegram_bot(started) ==
    IF ~telegram_token THEN [bot |-> "returned", http |-> http]
    ELSE IF started THEN [bot |-> "polling", http |-> http]
    ELSE [bot |-> "failed", http |-> "stopped"]

start_telegram_bot ==
    \E started \in BOOLEAN :
        /\ bot = "created"
        /\ Quiet
        /\ bot' = run_telegram_bot(started).bot
        /\ http' = run_telegram_bot(started).http
        /\ UNCHANGED <<telegram_token, groups, links, next_uuid, tasks,
                       replies, ingested, response>>

run_fastapi_server ==
    /\ http = "created"
    /\ http' = "serving"
    /\ UNCHANGED <<telegram_token, bot, groups, links, next_uuid, tasks,
                   replies, ingested, response>>

(***************************************************************************)
(* Specifications.                                                         *)
(***************************************************************************)
\* main after init_database on a new database file
Init ==
    /\ telegram_token \in BOOLEAN
    /\ bot = "created"
    /\ http = "created"
    /\ groups = <<>>
    /\ links = <<>>
    /\ next_uuid = 1
    /\ tasks = [t \in TaskIds |-> Idle]
    /\ replies = {}
    /\ ingested = {}
    /\ response = NoResponse

Next ==
    \/ start_telegram_bot
    \/ run_fastapi_server
    \/ handle_message(FALSE)
    \/ fetch_returns
    \/ handle_rssfeed_command(FALSE)
    \/ reply_sent
    \/ handler_done
    \/ get_rss
    \/ get_health
    \/ get_root
    \/ response_sent

Spec == Init /\ [][Next]_vars

\* the same program with /rssfeed commands handled concurrently: a command is
\* taken up while earlier handler calls are suspended at their awaits
NextConc ==
    \/ start_telegram_bot
    \/ run_fastapi_server
    \/ handle_message(FALSE)
    \/ fetch_returns
    \/ handle_rssfeed_command(TRUE)
    \/ reply_sent
    \/ handler_done
    \/ get_rss
    \/ get_health
    \/ get_root
    \/ response_sent

SpecConc == Init /\ [][NextConc]_vars

\* the same program on a store whose writes can fail
NextFault ==
    \/ Next
    \/ fetch_returns_write_fails

SpecFault == Init /\ [][NextFault]_vars

(***************************************************************************)
(* The feed of a long-lived database: the tables as many ingestions have   *)
(* left them, and the HTTP endpoints reading them.  The links are the rows *)
(* handle_message writes, one message each, with clock readings in several *)
(* orders: rising, all equal, falling (a clock set back), and two mixed    *)
(* ones with and without equal readings.  Every fifth row is of the second *)
(* chat.                                                                   *)
(***************************************************************************)
DatePatterns ==
    { [mul |-> 1, mod |-> 200], [mul |-> 0, mod |-> 1], [mul |-> 199, mod |-> 200],
      [mul |-> 7, mod |-> 10], [mul |-> 37, mod |-> 127] }

feed_row(i, pattern) ==
    LET chat_id == IF i % 5 = 0 THEN "g2" ELSE "g1"
        url == IF i % 2 = 0 THEN "http://a.example/x" ELSE "http://b.example/y"
        first_name == CHOOSE n \in FirstNamesOf(chat_id) : TRUE
        user_name == IF first_name # None THEN first_name ELSE "Unknown"
        og_data == fetch_og_tags(CHOOSE page \in PagesOf(url) : TRUE)
        reading == (i * pattern.mul) % pattern.mod
    IN  link_row(chat_id, link_data_of(url, og_data, user_name, i, datetime(reading)))

InitFeed ==
    /\ telegram_token = TRUE
    /\ bot = "polling"
    /\ http = "serving"
    /\ groups = <<[chat_id |-> "g1", token |-> Uuids[1]],
                  [chat_id |-> "g2", token |-> Uuids[2]]>>
    /\ \E n \in 0..MaxFeedRows, pattern \in DatePatterns :
           links = [i \in 1..n |-> feed_row(i, pattern)]
    /\ next_uuid = 3
    /\ tasks = [t \in TaskIds |-> Idle]
    /\ replies = {<<"g1", Uuids[1]>>, <<"g2", Uuids[2]>>}
    /\ ingested = {<<links[i].chat_id, links[i].message_id, {links[i].url}>> :
                      i \in {Len(links)} \ {0}}
    /\ response = NoResponse

NextFeed ==
    \/ get_rss
    \/ get_health
    \/ get_root
    \/ response_sent

SpecFeed == InitFeed /\ [][NextFeed]_vars

(***************************************************************************)
(* Properties.  A handler call that has ended is still in its slot, and a  *)
(* response is still being sent, in the state its last step left: the      *)
(* properties of a call or a request are invariants of those states.       *)
(***************************************************************************)
\* the rows stored for a message of a group, in rowid order
rows_of(chat_id, message_id) ==
    SelectSeq(links, LAMBDA r : r.chat_id = chat_id /\ r.message_id = message_id)

urls_of(rows) == [i \in 1..Len(rows) |-> rows[i].url]

\* a call of handle_message for a message with URLs has ended
Ingested(t) ==
    tasks[t].handler = "handle_message" /\ Ended(t) /\ tasks[t].urls # <<>>

\* every entry of a feed is a link stored under the group, each stored link
\* standing for at most one entry
EntriesOf(items, chat_id) ==
    \A i \in 1..Len(items) :
        Cardinality({j \in 1..Len(items) : items[j] = items[i]})
            <= Cardinality({k \in 1..Len(links) :
                   /\ links[k].chat_id = chat_id
                   /\ rss_item(LinkData(links[k])) = items[i]})

\* C1: when a message of a group has been ingested twice, the second time
\* with another set of URLs, the links stored for the message are those of
\* the second ingestion, one per URL of the second text in order, and none of
\* the first
C1_IdempotentEdit ==
    \A t \in TaskIds :
        (Ingested(t) /\ tasks[t].before # {} /\ tasks[t].before # Range(tasks[t].urls))
            => urls_of(rows_of(tasks[t].chat_id, tasks[t].message_id)) = tasks[t].urls

\* C2: the ingestion of a message with K URL occurrences ends without an
\* error and leaves K link rows under the group, one per occurrence with its
\* URL and a description that starts with the attribution to the sender,
\* whether or not the group has a token
C2_OneRowPerOccurrence ==
    \A t \in TaskIds :
        Ingested(t) =>
            LET rows == rows_of(tasks[t].chat_id, tasks[t].message_id)
            IN  /\ tasks[t].pc = "returned"
                /\ urls_of(rows) = tasks[t].urls
                /\ \A i \in 1..Len(rows) :
                       SubSeq(rows[i].description, 1, 2) = shared_by(tasks[t].user_name)

\* C3: each group has at most one token and each token at most one group;
\* the tokens get_group_token has returned (those of the /rssfeed replies)
\* are one per group for good, distinct for distinct groups, and are the
\* stored ones
C3_TokenBijection ==
    /\ \A i, j \in 1..Len(groups) :
           (groups[i].chat_id = groups[j].chat_id \/ groups[i].token = groups[j].token)
               => i = j
    /\ \A p, q \in replies : (p[1] = q[1]) <=> (p[2] = q[2])
    /\ \A p \in replies : [chat_id |-> p[1], token |-> p[2]] \in Range(groups)

\* a later /rssfeed of a group got the token the first one made, with a link
\* ingested and another group's token made in between
C3_Witness ==
    /\ \E t \in TaskIds :
           /\ tasks[t].pc = "reply"
           /\ ~tasks[t].created
           /\ groups[1].chat_id = tasks[t].chat_id
    /\ Len(groups) = 2
    /\ links # <<>>

\* C4: with /rssfeed commands handled concurrently, no call of
\* get_group_token raises, a group never has two rows in groups, and the
\* calls for one group all get the same token
C4_ConcurrentCallersSafe ==
    /\ \A t \in TaskIds :
           tasks[t].handler = "handle_rssfeed_command" => tasks[t].pc # "raised"
    /\ \A t, u \in TaskIds :
           (/\ tasks[t].handler = "handle_rssfeed_command"
            /\ tasks[u].handler = "handle_rssfeed_command"
            /\ tasks[t].token # None
            /\ tasks[u].token # None
            /\ tasks[t].chat_id = tasks[u].chat_id)
               => tasks[t].token = tasks[u].token
    /\ \A chat_id \in Chats :
           Len(SelectSeq(groups, LAMBDA g : g.chat_id = chat_id)) <= 1

\* two /rssfeed commands of one group are both suspended at their reply, the
\* first having created the token
C4_Witness ==
    /\ tasks[1].pc = "reply"
    /\ tasks[2].pc = "reply"
    /\ tasks[1].chat_id = tasks[2].chat_id
    /\ tasks[1].created
    /\ ~tasks[2].created

\* C5: GET /rss with a token of no group is answered 401 without a feed; with
\* the token of a group it is answered with the feed of that group, whose
\* entries are all links stored under that group
C5_AuthGateAndIsolation ==
    (response.endpoint = "/rss" /\ response.token # None) =>
        IF \A g \in Range(groups) : g.token # response.token
        THEN /\ response.status = 401
             /\ response.items = <<>>
             /\ response.channel_link = None
        ELSE /\ response.status = 200
             /\ \E g \in Range(groups) :
                    /\ g.token = response.token
                    /\ g.chat_id = response.channel_link
             /\ EntriesOf(response.items, response.channel_link)

\* a feed with an entry is served while another group has a link stored
C5_Witness ==
    /\ response.endpoint = "/rss"
    /\ response.status = 200
    /\ response.items # <<>>
    /\ \E r \in Range(links) : r.chat_id # response.channel_link

\* C6 (as amended): GET /rss without the token parameter is answered 422 by
\* the validation of the required parameter, without a feed
C6_MissingTokenUnprocessable ==
    (response.endpoint = "/rss" /\ response.token = None) =>
        response.status = 422 /\ response.items = <<>>

\* C6 (as claimed): GET /rss without the token parameter is answered 401
C6_MissingTokenUnauthorized ==
    (response.endpoint = "/rss" /\ response.token = None) => response.status = 401

\* a request without the token parameter is answered while groups have tokens
C6_Witness ==
    /\ response.endpoint = "/rss"
    /\ response.token = None
    /\ groups # <<>>

\* C7: the feed of a group with n stored links has min(n, 50) entries, in
\* descending order of timestamp; each is a stored link of the group, and
\* every link of the group newer than the last entry is an entry
C7_FeedWindow ==
    (response.endpoint = "/rss" /\ response.status = 200) =>
        LET items == response.items
            mine == SelectSeq(links, LAMBDA r : r.chat_id = response.channel_link)
            date(item) == item.guid[2]
        IN  /\ Len(items) = Min(Len(mine), 50)
            /\ \A i \in 1..(Len(items) - 1) :
                   ~DatetimeLess(date(items[i]), date(items[i + 1]))
            /\ EntriesOf(items, response.channel_link)
            /\ \A k \in 1..Len(mine) :
                   LET item == rss_item(LinkData(mine[k]))
                   IN  (items # <<>> /\ DatetimeLess(date(items[Len(items)]), date(item)))
                           => Cardinality({j \in 1..Len(items) : items[j] = item})
                                 = Cardinality({l \in 1..Len(mine) :
                                       rss_item(LinkData(mine[l])) = item})

\* a feed of 50 entries is served for a group with more links, whose
\* timestamps are not all the same
C7_Witness ==
    /\ response.endpoint = "/rss"
    /\ response.status = 200
    /\ Len(response.items) = 50
    /\ Len(SelectSeq(links, LAMBDA r : r.chat_id = response.channel_link)) > 50
    /\ response.items[1].guid[2] # response.items[50].guid[2]

\* C8: when the metadata fetch of a URL of a message fails, the ingestion
\* ends without an error with one row per URL of the message, and the row of
\* the URL has the URL as its title and the attribution alone as its
\* description
C8_FetchDegradation ==
    \A t \in TaskIds :
        (Ingested(t) /\ tasks[t].failed # {}) =>
            LET rows == rows_of(tasks[t].chat_id, tasks[t].message_id)
            IN  /\ tasks[t].pc = "returned"
                /\ urls_of(rows) = tasks[t].urls
                /\ \A i \in tasks[t].failed :
                       /\ rows[i].title = tasks[t].urls[i]
                       /\ rows[i].description = shared_by(tasks[t].user_name)

\* C9: a token that was put in the /rssfeed reply of a group, presented to
\* GET /rss at any later time, is answered 200 with the feed of that group
C9_TokenRoundTrip ==
    response.endpoint = "/rss" =>
        \A p \in replies :
            p[2] = response.token
                => response.status = 200 /\ response.channel_link = p[1]

\* the token of the second group's reply is presented after the commands of
\* both groups and the ingestion of a link
C9_Witness ==
    /\ response.endpoint = "/rss"
    /\ Len(groups) = 2
    /\ <<groups[2].chat_id, response.token>> \in replies
    /\ links # <<>>

\* C10: with the credential missing, run_telegram_bot returns before the
\* bot is built: no handler is ever called and nothing is stored, while the
\* server starts, is never stopped, and answers /rss, /health and /
C10_MissingCredential ==
    ~telegram_token =>
        /\ bot \in {"created", "returned"}
        /\ \A t \in TaskIds : tasks[t] = Idle
        /\ groups = <<>> /\ links = <<>> /\ replies = {} /\ ingested = {}
        /\ http \in {"created", "serving"}
        /\ http = "created" => ENABLED run_fastapi_server
        /\ (http = "serving" /\ response = NoResponse)
               => ENABLED get_rss /\ ENABLED get_health /\ ENABLED get_root

\* with the credential missing, run_telegram_bot has returned and the server
\* is answering a request
C10_Witness ==
    /\ ~telegram_token
    /\ bot = "returned"
    /\ http = "serving"
    /\ response.endpoint = "/rss"

\* C11: every stored link has a non-empty title, which is the title of the
\* metadata a fetch of its URL gives when that is non-empty, and the URL
\* otherwise
C11_TitleNeverEmpty ==
    \A row \in Range(links) :
        /\ row.title # None
        /\ row.title # ""
        /\ row.title \in
               {IF ~Falsy(og_data.title) THEN og_data.title ELSE row.url :
                    og_data \in {fetch_og_tags(page) : page \in PagesOf(row.url)}}

\* a link titled by its URL and a link titled by its metadata are stored
C11_Witness ==
    \E i, j \in 1..Len(links) :
        /\ links[i].title = links[i].url
        /\ links[j].title # links[j].url

\* C12: a call of handle_message for an update without a message, without
\* text and caption, or without a URL in them leaves the tables as they were:
\* nothing is purged and nothing is inserted
C12_NoUrlNoOp ==
    [][\A t \in TaskIds :
          (/\ tasks[t].pc = "idle"
           /\ tasks'[t].handler = "handle_message"
           /\ tasks'[t].urls = <<>>)
              => links' = links /\ groups' = groups /\ next_uuid' = next_uuid]_vars

\* an update without URLs was handled for a message whose links are stored
C12_Witness ==
    \E t \in TaskIds :
        /\ tasks[t].handler = "handle_message"
        /\ Ended(t)
        /\ tasks[t].urls = <<>>
        /\ rows_of(tasks[t].chat_id, tasks[t].message_id) # <<>>

\* C13: no step of the ingestion of a message of a group, its purge
\* included, changes the links of other messages of the group or the links
\* of other groups, those with the same message identifier included
C13_PurgeScope ==
    [][\A t \in TaskIds :
          (tasks'[t].handler = "handle_message" /\ tasks'[t] # tasks[t]) =>
              LET others(tbl) ==
                      SelectSeq(tbl, LAMBDA r : ~(/\ r.chat_id = tasks'[t].chat_id
                                                   /\ r.message_id = tasks'[t].message_id))
              IN  others(links') = others(links)]_vars

\* an edit has purged the links of its message while another group has a link
\* with the same message identifier
C13_Witness ==
    \E t \in TaskIds :
        /\ tasks[t].pc = "fetch"
        /\ tasks[t].purged > 0
        /\ \E r \in Range(links) :
               r.chat_id # tasks[t].chat_id /\ r.message_id = tasks[t].message_id

\* C14: when save_link fails for the i-th URL of a message (no row is
\* written at the return of its fetch), the exception ends handle_message
\* there: the call has raised with its loop at i, so nothing is fetched or
\* written for the URLs after it, and the links stored for the message are
\* those of the URLs before it, in order
C14_WriteFailureAborts ==
    [][\A t \in TaskIds :
          (tasks[t].pc = "fetch" /\ tasks'[t] # tasks[t] /\ links' = links) =>
              LET task == tasks'[t]
                  rows == SelectSeq(links', LAMBDA r : /\ r.chat_id = task.chat_id
                                                        /\ r.message_id = task.message_id)
              IN  /\ task.pc = "raised"
                  /\ task.i = tasks[t].i
                  /\ urls_of(rows) = SubSeq(task.urls, 1, task.i - 1)]_vars

\* the write of the second URL of a message has failed, the link of the first
\* is stored
C14_Witness ==
    \E t \in TaskIds :
        /\ tasks[t].handler = "handle_message"
        /\ tasks[t].pc = "raised"
        /\ tasks[t].i = 2
        /\ Len(rows_of(tasks[t].chat_id, tasks[t].message_id)) = 1

\* C15: a feed served while the ingestion of a message with two or more URLs
\* is in progress holds no part of that message's write: none of its links
\* when it is a new message, and never a state between the old links and the
\* new ones when it is an edit
C15_NoTornRead ==
    (response.endpoint = "/rss" /\ response.status = 200) =>
        \A t \in TaskIds :
            (/\ tasks[t].pc = "fetch"
             /\ Len(tasks[t].urls) >= 2
             /\ tasks[t].chat_id = response.channel_link)
                => /\ tasks[t].purged = 0
                   /\ \A r \in Range(rows_of(tasks[t].chat_id, tasks[t].message_id)) :
                          \A j \in 1..Len(response.items) :
                              response.items[j] # rss_item(LinkData(r))

\* C16: while an ingestion is suspended at a metadata fetch and the server
\* is up, a GET /rss can be taken, one with the token of a group is answered
\* 200, and the response can be sent, all without a step of the ingestion
C16_FetchDoesNotBlockFeed ==
    ((\E t \in TaskIds : tasks[t].pc = "fetch") /\ http = "serving") =>
        /\ response = NoResponse =>
               /\ ENABLED get_rss
               /\ \A g \in Range(groups), ties \in TieOrders :
                      rss_feed(g.token, ties).status = 200
        /\ response.endpoint = "/rss" => ENABLED response_sent

\* a feed is being served while an ingestion waits for the fetch of its URL
C16_Witness ==
    /\ response.endpoint = "/rss"
    /\ response.status = 200
    /\ \E t \in TaskIds : tasks[t].pc = "fetch"

\* C17: at most one call of handle_message is in progress, so at most one
\* metadata fetch is outstanding; while the fetch of the i-th URL of a
\* message is outstanding the links stored for the message are those of its
\* URLs 1..i-1, one each in order (none at the first fetch: the purge is
\* done), and when the call returns they are one per URL occurrence
C17_SequentialIngestion ==
    /\ Cardinality({t \in TaskIds :
           tasks[t].handler = "handle_message" /\ Active(t)}) <= 1
    /\ \A t \in TaskIds :
           (tasks[t].handler = "handle_message" /\ tasks[t].urls # <<>>) =>
               LET stored == urls_of(rows_of(tasks[t].chat_id, tasks[t].message_id))
               IN  /\ tasks[t].pc = "fetch" =>
                       /\ tasks[t].i \in 1..Len(tasks[t].urls)
                       /\ stored = SubSeq(tasks[t].urls, 1, tasks[t].i - 1)
                   /\ tasks[t].pc = "returned" => stored = tasks[t].urls

\* the fetch of the second URL of an edited message is outstanding, the link
\* of its first URL is stored in place of the purged ones
C17_Witness ==
    \E t \in TaskIds :
        /\ tasks[t].pc = "fetch"
        /\ tasks[t].i = 2
        /\ tasks[t].purged > 0
        /\ Len(rows_of(tasks[t].chat_id, tasks[t].message_id)) = 1

\* C18: the chat_id of every row of links is the chat_id of a row of groups
C18_ReferentialIntegrity ==
    \A r \in Range(links) : \E g \in Range(groups) : g.chat_id = r.chat_id

\* a link of a group with a token is stored, and the insert of a link of a
\* group without one has just been refused
C18_Witness ==
    /\ links # <<>>
    /\ \E t \in TaskIds :
           /\ tasks[t].handler = "handle_message"
           /\ tasks[t].pc = "raised"
           /\ \A g \in Range(groups) : g.chat_id # tasks[t].chat_id

\* C19: a step that answers a request to /rss (with the token of a group, of
\* none, or without one), /health or / leaves groups and links as they were,
\* and a row of groups is only ever added by a call of
\* handle_rssfeed_command
C19_EndpointsReadOnly ==
    [][/\ (response' # response /\ response' # NoResponse)
           => groups' = groups /\ links' = links /\ next_uuid' = next_uuid
       /\ groups' # groups
           => \E t \in TaskIds :
                  /\ tasks[t].pc = "idle"
                  /\ tasks'[t].handler = "handle_rssfeed_command"
                  /\ tasks'[t].created]_vars

\* a request with a token of no group is answered 401 while links are stored
C19_Witness ==
    /\ response.endpoint = "/rss"
    /\ response.status = 401
    /\ links # <<>>

====
